---- MODULE Spec2Model ----
(***************************************************************************)
(* Model of app-server/src/engine/task/state.rs: the ExecState of one task *)
(* node (a mutex-protected State cell, a counting semaphore, a resettable  *)
(* flag) and the State enum stored in it.                                  *)
(*                                                                         *)
(* Threads: one producer (the owning task: set_state and                   *)
(* set_state_and_permits), the consumers (successor tasks: acquire one     *)
(* permit, forget it, then get_state), one observer (get_state without     *)
(* synchronisation) and the scheduler (reset between generations).         *)
(* The critical section of the mutex is explicit: a thread that took the   *)
(* lock holds it until its own unlock step.                                *)
(***************************************************************************)
EXTENDS Naturals, FiniteSets

VARIABLES
    output,      \* ExecState.output: the State in the mutex-protected cell
    mutex,       \* holder of the lock of ExecState.output, or Free
    semaphore,   \* ExecState.semaphore: number of available permits
    resettable,  \* ExecState.resettable
    prod,        \* the producer: position and the pending n_permits_to_add
    pc,          \* each consumer's position
    res,         \* each consumer's clone of the cell made by get_state
    seen,        \* each consumer's is_success / is_termination answers
    got,         \* each consumer's message returned by get_out
    obs,         \* the observer: position and the State it last read
    sched,       \* the scheduler: "ready", or "panicked" after a usage error
    gen,         \* number of resets so far (the generation)
    writes,      \* history: number of writes to output so far
    added,       \* history: permits added so far
    pubs,        \* history: set_state_and_permits calls begun in this generation
    lastPub,     \* history: the write of the last set_state_and_permits call that returned
    cgen,        \* history: the generation in which each pending consumer called
    calls,       \* history: calls the producer has made
    built,       \* history: the argument new_with_resettable was called with
    discarded    \* history: permits a reset has taken away

vars == << output, mutex, semaphore, resettable, prod, pc, res, seen, got, obs,
           sched, gen, writes, added, pubs, lastPub, cgen, calls, built, discarded >>

----------------------------------------------------------------------------
(* Bounds of the model *)

\* largest n_permits_to_add the producer passes
MaxFan == 1
\* largest message value
MaxMsg == 1
\* most set_state / set_state_and_permits calls of the producer
MaxWrites == 2
\* most resets
MaxGen == 1

\* one consumer more than the largest fan-out, so that a node can be over-subscribed
Consumers == 1 .. (MaxFan + 1)
\* who holds the lock of the cell
Free == [by |-> "none", id |-> 0]
Producer == [by |-> "producer", id |-> 0]
Observer == [by |-> "observer", id |-> 0]
Holder(c) == [by |-> "consumer", id |-> c]

\* crate::pipeline::nodes::Message, as opaque values; Message::empty() is one of them
Messages == 0 .. MaxMsg
EmptyMessage == 0
NoMessage == MaxMsg + 1

None == [tag |-> "None"]

----------------------------------------------------------------------------
(* enum State and impl State *)

\* State::new
new(val) == [tag |-> "Success", msg |-> val]

\* State::empty
empty == [tag |-> "Empty", msg |-> EmptyMessage]

\* State::termination
termination == [tag |-> "Termination", msg |-> NoMessage]

\* is_success with Empty on the wrong side of the match
is_success_m(s) == s.tag # "Termination"
\* State::is_success
is_success(s) ==
    CASE s.tag = "Success" -> TRUE
      [] s.tag \in {"Termination", "Empty"} -> FALSE

\* is_termination that also matches Empty
is_termination_m(s) == s.tag # "Success"
\* State::is_termination
is_termination(s) == s.tag = "Termination"

\* panic!("Task is terminated!")
Panic == [ok |-> FALSE, msg |-> NoMessage]
Returned(m) == [ok |-> TRUE, msg |-> m]

\* get_out that hands out the empty message for Termination
get_out_m(s) == IF s.tag = "Termination" THEN Returned(EmptyMessage) ELSE Returned(s.msg)
\* State::get_out: the message returned, or the panic
get_out(s) ==
    CASE s.tag = "Success" -> Returned(s.msg)
      [] s.tag = "Empty" -> Returned(s.msg)
      [] s.tag = "Termination" -> Panic

\* The constructor calls a task can make, and the State each one builds
Calls ==
    {[ctor |-> "new", arg |-> m] : m \in Messages}
        \cup {[ctor |-> "empty", arg |-> EmptyMessage],
              [ctor |-> "termination", arg |-> NoMessage]}

Make(call) ==
    CASE call.ctor = "new" -> new(call.arg)
      [] call.ctor = "empty" -> empty
      [] call.ctor = "termination" -> termination

\* A State written to the cell, with the history of how it came about:
\* the constructor call, the number of the write, the generation, the operation
Stamped(call, k, g, op) ==
    [st |-> Make(call), call |-> call, ver |-> k, gen |-> g, op |-> op]

EmptyCall == [ctor |-> "empty", arg |-> EmptyMessage]

----------------------------------------------------------------------------
(* impl ExecState *)

\* new_with_resettable that starts the semaphore with one permit
new_with_resettable_m(r) ==
    [output |-> Stamped(EmptyCall, 0, 0, "init"), semaphore |-> 1, resettable |-> r]
\* ExecState::new_with_resettable
new_with_resettable(r) ==
    [output |-> Stamped(EmptyCall, 0, 0, "init"), semaphore |-> 0, resettable |-> r]

\* set_state that drops the assignment
set_state_m(cell, s) == cell
\* ExecState::set_state: the cell after *self.output.lock().unwrap() = output
set_state(cell, s) == s

\* get_state that returns a fresh State::empty() and not the clone
get_state_m(cell) == Stamped(EmptyCall, 0, 0, "init")
\* ExecState::get_state: the clone of the cell
get_state(cell) == cell

\* add_permits with one permit too many, with one too few, and one that sets
\* the number of permits instead of adding to it
add_permits_m(sem, n) == sem + n + 1
add_permits_set(sem, n) == n
add_permits_less(sem, n) == IF n > 0 THEN sem + n - 1 ELSE sem
\* Semaphore::add_permits as set_state_and_permits calls it
add_permits(sem, n) == sem + n

\* is_resettable that ignores the flag
is_resettable_m(r) == TRUE
\* ExecState::is_resettable
is_resettable(r) == r

Init ==
    /\ \E r \in BOOLEAN :
          LET e == new_with_resettable(r) IN
            /\ output = e.output
            /\ semaphore = e.semaphore
            /\ resettable = e.resettable
            /\ built = r
    /\ mutex = Free
    /\ prod = [pc |-> "idle", n |-> 0]
    /\ pc = [c \in Consumers |-> "idle"]
    /\ res = [c \in Consumers |-> None]
    /\ seen = [c \in Consumers |-> None]
    /\ got = [c \in Consumers |-> None]
    /\ obs = [pc |-> "idle", val |-> None]
    /\ sched = "ready"
    /\ gen = 0
    /\ writes = 0
    /\ added = 0
    /\ pubs = 0
    /\ lastPub = 0
    /\ cgen = [c \in Consumers |-> 0]
    /\ calls = 0
    /\ discarded = 0

----------------------------------------------------------------------------
(* The producer *)

\* set_state called alone: lock the cell and replace it
SetLock(call) ==
    /\ prod.pc = "idle"
    /\ mutex = Free
    /\ calls < MaxWrites
    /\ calls' = calls + 1
    /\ mutex' = Producer
    /\ writes' = writes + 1
    /\ output' = set_state(output, Stamped(call, writes + 1, gen, "set"))
    /\ prod' = [prod EXCEPT !.pc = "set"]
    /\ UNCHANGED << semaphore, resettable, pc, res, seen, got, obs, sched, gen,
                    added, pubs, lastPub, cgen,
                    built, discarded >>

\* set_state called alone: the guard is dropped, the call returns
SetUnlock ==
    /\ prod.pc = "set"
    /\ mutex' = Free
    /\ prod' = [prod EXCEPT !.pc = "idle"]
    /\ UNCHANGED << output, semaphore, resettable, pc, res, seen, got, obs, sched,
                    gen, writes, added, pubs, lastPub, cgen, calls,
                    built, discarded >>

\* set_state_and_permits, line 98: self.set_state(state), under the lock
PublishLock(call, n) ==
    /\ prod.pc = "idle"
    /\ mutex = Free
    /\ calls < MaxWrites
    /\ calls' = calls + 1
    /\ mutex' = Producer
    /\ writes' = writes + 1
    /\ pubs' = pubs + 1
    /\ output' = set_state(output, Stamped(call, writes + 1, gen, "publish"))
    /\ prod' = [pc |-> "pub_set", n |-> n]
    /\ UNCHANGED << semaphore, resettable, pc, res, seen, got, obs, sched, gen,
                    added, lastPub, cgen,
                    built, discarded >>

\* the guard of set_state kept until set_state_and_permits returns
PublishUnlock_m ==
    /\ prod.pc = "pub_set"
    /\ prod' = [prod EXCEPT !.pc = "pub_add"]
    /\ UNCHANGED << output, mutex, semaphore, resettable, pc, res, seen, got, obs,
                    sched, gen, writes, added, pubs, lastPub, cgen, calls,
                    built, discarded >>

\* set_state_and_permits: set_state returns, the guard is dropped
PublishUnlock ==
    /\ prod.pc = "pub_set"
    /\ mutex' = Free
    /\ prod' = [prod EXCEPT !.pc = "pub_add"]
    /\ UNCHANGED << output, semaphore, resettable, pc, res, seen, got, obs, sched,
                    gen, writes, added, pubs, lastPub, cgen, calls,
                    built, discarded >>

\* set_state_and_permits, line 99: self.semaphore().add_permits(n), and return
PublishAdd ==
    /\ prod.pc = "pub_add"
    /\ semaphore' = add_permits(semaphore, prod.n)
    /\ added' = added + prod.n
    /\ lastPub' = writes
    /\ prod' = [pc |-> "idle", n |-> 0]
    /\ UNCHANGED << output, mutex, resettable, pc, res, seen, got, obs, sched, gen,
                    writes, pubs, cgen, calls,
                    built, discarded >>

----------------------------------------------------------------------------
(* A consumer: semaphore().acquire().await, forget the permit, get_state() *)

\* the consumer starts to wait for a permit (the consumers are alike: they call
\* in the order of their numbers)
Call(c) ==
    /\ pc[c] = "idle"
    /\ \A d \in Consumers : d < c => pc[d] # "idle"
    /\ pc' = [pc EXCEPT ![c] = "waiting"]
    /\ cgen' = [cgen EXCEPT ![c] = gen]
    /\ UNCHANGED << output, mutex, semaphore, resettable, prod, res, seen, got, obs,
                    sched, gen, writes, added, pubs, lastPub, calls,
                    built, discarded >>

\* a permit is available: the consumer takes it and never gives it back
Acquire(c) ==
    /\ pc[c] = "waiting"
    /\ semaphore >= 1
    /\ semaphore' = semaphore - 1
    /\ pc' = [pc EXCEPT ![c] = "acquired"]
    /\ UNCHANGED << output, mutex, resettable, prod, res, seen, got, obs, sched, gen,
                    writes, added, pubs, lastPub, cgen, calls,
                    built, discarded >>

\* get_state: lock the cell and clone it
ReadLock(c) ==
    /\ pc[c] = "acquired"
    /\ mutex = Free
    /\ mutex' = Holder(c)
    /\ res' = [res EXCEPT ![c] = get_state(output)]
    /\ pc' = [pc EXCEPT ![c] = "reading"]
    /\ UNCHANGED << output, semaphore, resettable, prod, seen, got, obs, sched, gen,
                    writes, added, pubs, lastPub, cgen, calls,
                    built, discarded >>

\* What the caller of get_state keeps of the clone: the State (and the
\* constructor call that built it), without the history of the cell
Value(cell) == [st |-> cell.st, call |-> cell.call]

\* get_state returns: the guard is dropped and the clone is handed to the consumer,
\* which asks it what it is and extracts the message: get_out returns it or panics
ReadReturn(c) ==
    /\ pc[c] = "reading"
    /\ mutex' = Free
    /\ res' = [res EXCEPT ![c] = Value(res[c])]
    /\ seen' = [seen EXCEPT ![c] = [success |-> is_success(res[c].st),
                                    termination |-> is_termination(res[c].st)]]
    /\ LET m == get_out(res[c].st) IN
         /\ got' = [got EXCEPT ![c] = m]
         /\ pc' = [pc EXCEPT ![c] = IF m.ok THEN "got" ELSE "panicked"]
    /\ cgen' = [cgen EXCEPT ![c] = 0]
    /\ UNCHANGED << output, semaphore, resettable, prod, obs, sched,
                    gen, writes, added, pubs, lastPub, calls,
                    built, discarded >>

----------------------------------------------------------------------------
(* The observer: get_state without taking a permit *)

PeekLock ==
    /\ obs.pc = "idle"
    /\ mutex = Free
    /\ mutex' = Observer
    /\ obs' = [pc |-> "reading", val |-> get_state(output)]
    /\ UNCHANGED << output, semaphore, resettable, prod, pc, res, seen, got, sched,
                    gen, writes, added, pubs, lastPub, cgen, calls,
                    built, discarded >>

PeekUnlock ==
    /\ obs.pc = "reading"
    /\ mutex' = Free
    /\ obs' = [pc |-> "idle", val |-> None]
    /\ UNCHANGED << output, semaphore, resettable, prod, pc, res, seen, got, sched,
                    gen, writes, added, pubs, lastPub, cgen, calls,
                    built, discarded >>

----------------------------------------------------------------------------
(* The scheduler: reset between two generations.  The scheduler serialises  *)
(* the reset against the producer and against the consumers that hold a     *)
(* permit of the generation that ends.                                      *)

Quiescent ==
    /\ mutex = Free
    /\ prod.pc = "idle"
    /\ \A c \in Consumers : pc[c] \notin {"acquired", "reading"}

Reset ==
    /\ sched = "ready"
    /\ Quiescent
    /\ IF is_resettable(resettable)
       THEN /\ gen < MaxGen
            /\ writes' = writes + 1
            /\ gen' = gen + 1
            /\ output' = Stamped(EmptyCall, writes + 1, gen + 1, "reset")
            /\ semaphore' = 0
            /\ discarded' = discarded + semaphore
            /\ pubs' = 0
            /\ sched' = sched
       ELSE /\ sched' = "panicked"
            /\ UNCHANGED << output, semaphore, gen, writes, pubs, discarded >>
    /\ UNCHANGED << mutex, resettable, prod, pc, res, seen, got, obs, added,
                    lastPub, cgen, calls, built >>

----------------------------------------------------------------------------

Next ==
    \/ \E call \in Calls : SetLock(call)
    \/ SetUnlock
    \/ \E call \in Calls, n \in 0 .. MaxFan : PublishLock(call, n)
    \/ PublishUnlock
    \/ PublishAdd
    \/ \E c \in Consumers : Call(c)
    \/ \E c \in Consumers : Acquire(c)
    \/ \E c \in Consumers : ReadLock(c)
    \/ \E c \in Consumers : ReadReturn(c)
    \/ PeekLock
    \/ PeekUnlock
    \/ Reset

Spec == Init /\ [][Next]_vars

----------------------------------------------------------------------------
(* Properties *)

\* the consumers that have taken a permit
Acquired == {c \in Consumers : pc[c] \in {"acquired", "reading", "got", "panicked"}}

\* the consumers whose get_state has returned
Finished == {c \in Consumers : pc[c] \in {"got", "panicked"}}

\* the gate is fresh but for one set_state_and_permits call: it is the only write
SinglePublish == gen = 0 /\ pubs = 1 /\ writes = 1

\* the n_permits_to_add of the gate's only set_state_and_permits call: that of
\* the call under way or, once it has returned, all the permits added
FanOut == IF prod.pc \in {"pub_set", "pub_add"} THEN prod.n ELSE added

\* C1: after a single publish(v, n) on a fresh gate at most n consumers take a
\* permit, and none before the permits are added; once the publish has returned
\* the permits left are n minus the permits taken; every consumer that reads gets
\* the published State v; and with no permit left a waiting consumer cannot
\* proceed.
C1_ExactlyN ==
    SinglePublish =>
        /\ Cardinality(Acquired) <= FanOut
        /\ prod.pc # "idle" => Acquired = {}
        /\ prod.pc = "idle" => semaphore = FanOut - Cardinality(Acquired)
        /\ \A c \in Consumers :
              /\ pc[c] = "reading" =>
                    res[c] = output /\ res[c].ver = 1 /\ res[c].op = "publish"
              /\ c \in Finished =>
                    res[c] = Value(output) /\ output.ver = 1 /\ output.op = "publish"
              /\ (pc[c] = "waiting" /\ semaphore = 0) => ~ ENABLED Acquire(c)

\* C1 witness: publish(v, MaxFan) was the only write, MaxFan consumers returned
\* with v and one more consumer is blocked.
C1_Witness ==
    /\ SinglePublish
    /\ prod.pc = "idle"
    /\ added = MaxFan
    /\ Cardinality(Finished) = MaxFan
    /\ semaphore = 0
    /\ \E c \in Consumers : pc[c] = "waiting" /\ ~ ENABLED Acquire(c)

\* C2: the number of permits is never negative and the consumers that have
\* taken a permit are never more than the permits added.
C2_NoOverAcquire ==
    /\ semaphore \in Nat
    /\ Cardinality(Acquired) <= added

\* C2 witness: every permit added has been taken and one more consumer waits
\* with no permit left.
C2_Witness ==
    /\ added >= 1
    /\ Cardinality(Acquired) = added
    /\ semaphore = 0
    /\ \E c \in Consumers : pc[c] = "waiting"

----------------------------------------------------------------------------
(* One generation with as many permits as consumers: the producer publishes  *)
(* once, with a fan-out that covers the consumers that wait already, and no  *)
(* more consumers call than the fan-out; the producer may also call          *)
(* set_state.  A thread inside set_state, set_state_and_permits or get_state *)
(* runs on, and a task whose permit or lock is available is polled again:    *)
(* each of these steps is weakly fair.                                       *)

\* the consumers that have called
Called == {c \in Consumers : pc[c] # "idle"}

LivePublish(call, n) ==
    /\ pubs = 0
    /\ n >= Cardinality(Called)
    /\ PublishLock(call, n)

LiveCall(c) ==
    /\ pubs = 0 \/ Cardinality(Called) < FanOut
    /\ Call(c)

LiveNext ==
    \/ \E call \in Calls : SetLock(call)
    \/ SetUnlock
    \/ \E call \in Calls, n \in 0 .. MaxFan : LivePublish(call, n)
    \/ PublishUnlock
    \/ PublishAdd
    \/ \E c \in Consumers : LiveCall(c)
    \/ \E c \in Consumers : Acquire(c)
    \/ \E c \in Consumers : ReadLock(c)
    \/ \E c \in Consumers : ReadReturn(c)

LiveSpec ==
    /\ Init
    /\ [][LiveNext]_vars
    /\ WF_vars(SetUnlock)
    /\ WF_vars(PublishUnlock)
    /\ WF_vars(PublishAdd)
    /\ \A c \in Consumers :
          WF_vars(Acquire(c)) /\ WF_vars(ReadLock(c)) /\ WF_vars(ReadReturn(c))

\* C4: once publish(v, n) is called, every consumer that waits (at most n call,
\* before or after the publish) eventually returns from get_state.
C4_EveryConsumerReturns ==
    \A c \in Consumers : (pubs = 1 /\ pc[c] = "waiting") ~> (c \in Finished)

\* C4 witness: publish(v, MaxFan) has returned and MaxFan consumers have returned
\* from get_state.
C4_Witness ==
    /\ pubs = 1
    /\ prod.pc = "idle"
    /\ added = MaxFan
    /\ Cardinality(Finished) = MaxFan

\* C5: a second publish in one generation fails at the call: it neither replaces
\* the State in the cell nor adds permits, so that no generation ever counts two
\* publishes that took effect.
C5_SecondPublishFails == pubs <= 1

C8_TerminationShortCircuit ==
    /\ \A c \in Finished :
          res[c].call.ctor = "termination" =>
              /\ seen[c].termination
              /\ ~ seen[c].success
              /\ pc[c] = "panicked"
              /\ ~ got[c].ok
    /\ (SinglePublish /\ output.call.ctor = "termination") =>
          \A c \in Finished : res[c].call.ctor = "termination" /\ pc[c] = "panicked"

\* C8 witness: after the single publish(termination(), MaxFan), MaxFan consumers
\* have received Termination and panicked in get_out.
C8_Witness ==
    /\ SinglePublish
    /\ output.call.ctor = "termination"
    /\ added = MaxFan
    /\ Cardinality({c \in Consumers : pc[c] = "panicked"}) = MaxFan

\* C9: for the State a consumer received, is_success() is true exactly when it
\* was built by new(val), is_termination() exactly when it was built by
\* termination(), and get_out returns val for new(val) and the empty message for
\* empty().
C9_VariantPredicates ==
    \A c \in Finished :
        /\ seen[c].success = (res[c].call.ctor = "new")
        /\ seen[c].termination = (res[c].call.ctor = "termination")
        /\ res[c].call.ctor = "new" => got[c] = Returned(res[c].call.arg)
        /\ res[c].call.ctor = "empty" => got[c] = Returned(EmptyMessage)

\* C9 witness: consumers have received a State built by new(val) with the largest
\* message, and one built by empty().
C9_Witness ==
    \E c, d \in Finished :
        /\ res[c].call = [ctor |-> "new", arg |-> MaxMsg]
        /\ got[c] = Returned(MaxMsg)
        /\ seen[c].success
        /\ res[d].call.ctor = "empty"
        /\ got[d] = Returned(EmptyMessage)
        /\ ~ seen[d].success

\* C10: the lock of the cell is only ever held by a thread inside set_state or
\* get_state, which can drop it without waiting (never by a consumer that waits
\* for a permit); with the lock free, set_state, set_state_and_permits and
\* get_state can take it whatever the consumers do; add_permits never waits; and
\* a waiting consumer can proceed whenever a permit is there.
C10_OnlyAcquireSuspends ==
    /\ mutex = Producer =>
          /\ prod.pc \in {"set", "pub_set"}
          /\ prod.pc = "set" => ENABLED SetUnlock
          /\ prod.pc = "pub_set" => ENABLED PublishUnlock
    /\ mutex = Observer => obs.pc = "reading" /\ ENABLED PeekUnlock
    /\ mutex.by = "consumer" =>
          pc[mutex.id] = "reading" /\ ENABLED ReadReturn(mutex.id)
    /\ prod.pc = "pub_add" => ENABLED PublishAdd
    /\ (mutex = Free /\ prod.pc = "idle" /\ calls < MaxWrites) =>
          \A call \in Calls :
              /\ ENABLED SetLock(call)
              /\ \A n \in 0 .. MaxFan : ENABLED PublishLock(call, n)
    /\ (mutex = Free /\ obs.pc = "idle") => ENABLED PeekLock
    /\ \A c \in Consumers :
          /\ (pc[c] = "waiting" /\ semaphore >= 1) => ENABLED Acquire(c)
          /\ (pc[c] = "acquired" /\ mutex = Free) => ENABLED ReadLock(c)

\* C10 witness: the producer is inside set_state_and_permits, holding the lock,
\* while a consumer waits for a permit and none is there.
C10_Witness ==
    /\ mutex = Producer
    /\ prod.pc = "pub_set"
    /\ semaphore = 0
    /\ \E c \in Consumers : pc[c] = "waiting"

\* C11: a gate that has not been written since new_with_resettable, whichever
\* flag it was built with, holds the State of State::empty(), which is neither
\* a success nor a termination; and as long as no permit has been added the
\* semaphore has none, no consumer has taken one and no waiting consumer can
\* proceed.
C11_NewGateEmpty ==
    /\ writes = 0 =>
          /\ output = Stamped(EmptyCall, 0, 0, "init")
          /\ output.st = empty
          /\ ~ is_success(output.st)
          /\ ~ is_termination(output.st)
          /\ get_out(output.st) = Returned(EmptyMessage)
          /\ resettable = built
    /\ added = 0 =>
          /\ semaphore = 0
          /\ Acquired = {}
          /\ \A c \in Consumers : pc[c] = "waiting" => ~ ENABLED Acquire(c)

\* C11 witness: on a gate built without the reset capability nothing has been
\* written or published, every consumer has called and none can proceed.
C11_Witness ==
    /\ ~ built
    /\ writes = 0
    /\ calls = 0
    /\ added = 0
    /\ semaphore = 0
    /\ \A c \in Consumers : pc[c] = "waiting" /\ ~ ENABLED Acquire(c)

\* C12: set_state_and_permits writes the cell before it adds a permit. While
\* the call is under way after its write, the cell already holds its State;
\* whenever the semaphore has a permit, a publish of the generation has
\* returned and the cell holds a State written by that publish or after it,
\* with one publish in the generation and no later set_state that publish's
\* State itself; and a consumer that took a permit never reads the State the
\* constructor or a reset left in the cell.
C12_PublishOrdering ==
    /\ prod.pc \in {"pub_set", "pub_add"} =>
          output.op = "publish" /\ output.ver = writes /\ output.gen = gen
    /\ semaphore > 0 =>
          /\ pubs >= 1
          /\ lastPub >= 1
          /\ output.ver >= lastPub
          /\ output.gen = gen
          /\ output.op \in {"publish", "set"}
    /\ (semaphore > 0 /\ pubs = 1 /\ output.op # "set") =>
          output.op = "publish" /\ output.ver = lastPub
    /\ \A c \in Consumers :
          pc[c] = "reading" =>
              res[c].op \in {"publish", "set"} /\ res[c].ver >= 1

\* C12 witness: after a reset the generation's only publish has returned, its
\* permit is there and the cell holds its State, while a consumer that may now
\* take the permit still waits.
C12_Witness ==
    /\ gen = 1
    /\ pubs = 1
    /\ prod.pc = "idle"
    /\ semaphore > 0
    /\ output.op = "publish"
    /\ output.gen = 1
    /\ is_success(output.st)
    /\ \E c \in Consumers : pc[c] = "waiting" /\ ENABLED Acquire(c)

\* C13: a set_state call replaces the cell with the State passed, in one step
\* taken under the lock, and changes neither the permits nor the flag nor the
\* position of any consumer, as it enters and as it returns; while it is under
\* way a consumer that waits with no permit cannot proceed.
C13_SetFrame ==
    /\ [][(prod.pc = "idle" /\ prod'.pc = "set") =>
            /\ mutex' = Producer
            /\ output'.op = "set"
            /\ output'.ver = writes + 1
            /\ output'.gen = gen
            /\ output'.st = Make(output'.call)
            /\ UNCHANGED << semaphore, resettable, pc, added >>]_vars
    /\ [][(prod.pc = "set" /\ prod'.pc = "idle") =>
            UNCHANGED << output, semaphore, resettable, pc, added >>]_vars
    /\ [](prod.pc = "set" =>
            /\ mutex = Producer
            /\ output.op = "set"
            /\ output.ver = writes
            /\ \A c \in Consumers :
                  (pc[c] = "waiting" /\ semaphore = 0) => ~ ENABLED Acquire(c))

\* C13 witness: set_state has written a success State to a gate nothing was
\* published to, and a consumer still waits with no permit.
C13_Witness ==
    /\ prod.pc = "set"
    /\ output.op = "set"
    /\ is_success(output.st)
    /\ pubs = 0
    /\ added = 0
    /\ semaphore = 0
    /\ \E c \in Consumers : pc[c] = "waiting" /\ ~ ENABLED Acquire(c)

\* C14: is_resettable() returns, in every reachable state, the value that
\* new_with_resettable was called with, whatever set_state, set_state_and_permits,
\* get_state, permit acquisitions and resets have happened since; the flag is never
\* changed by a step.
C14_ResettableFixed ==
    /\ is_resettable(resettable) = built
    /\ resettable = built

\* C14 witness: on a gate built with the flag false, after a set_state, a
\* publish, a consumer's read and a failed reset, with an observer reading,
\* is_resettable() is still false.
C14_Witness ==
    /\ ~ built
    /\ ~ is_resettable(resettable)
    /\ writes = 2
    /\ pubs = 1
    /\ output.op = "set"
    /\ Finished # {}
    /\ obs.pc = "reading"
    /\ sched = "panicked"

C16_PeekReadOnly ==
    /\ [][(obs.pc = "idle" /\ obs'.pc = "reading") =>
            /\ obs'.val = output
            /\ UNCHANGED << output, semaphore, resettable, pc, added >>]_vars
    /\ [][(obs.pc = "reading" /\ obs'.pc = "idle") =>
            UNCHANGED << output, semaphore, resettable, pc, added >>]_vars
    /\ [][(obs.pc = "reading" /\ obs'.pc = "reading") => obs'.val = obs.val]_vars
    /\ [][\A c \in Consumers :
            /\ pc[c] = "reading" => Value(res'[c]) = Value(res[c])
            /\ c \in Finished =>
                  res'[c] = res[c] /\ seen'[c] = seen[c] /\ got'[c] = got[c]]_vars

\* C16 witness: the observer holds the clone of the State a second publish
\* wrote, the permit of that publish is still there, and a consumer that
\* returned before it still has the State of the first publish.
C16_Witness ==
    /\ obs.pc = "reading"
    /\ obs.val = output
    /\ output.op = "publish"
    /\ pubs = 2
    /\ semaphore >= 1
    /\ \E c \in Finished : res[c] # Value(output) /\ is_success(res[c].st)

====
